---------------------------- MODULE Spec2Model ----------------------------
(***************************************************************************)
(* Model of the comment processing pipeline of comment-analyzer:           *)
(*   app/preprocessing.py   clean_text, autocorrect_text, detect_spam,     *)
(*                          detect_troll, classify_comment,                *)
(*                          is_valid_comment, preprocess_comments          *)
(*   app/vader_analyzer.py  get_vader_analyzer, analyze_sentiment,         *)
(*                          analyze_comments_vader,                        *)
(*                          calculate_sentiment_distribution,              *)
(*                          get_extreme_comments                           *)
(*   app/main.py            calculate_filtered_stats, analyze_comments     *)
(*                                                                         *)
(* A text (Python str) is a sequence of characters; a character is a       *)
(* one-letter string, except the non-ASCII characters, which carry a name  *)
(* in angle brackets ("<eacute>" is a non-ASCII letter, "<fire>" an emoji).*)
(* A compound score is an integer number of hundredths (0.05 is 5).        *)
(***************************************************************************)
EXTENDS Integers, Sequences, FiniteSets, TLC

VARIABLES
  raw,          \* the batch handed to preprocess_comments (list of dicts)
  pc,           \* position of the request handler (main.py analyze_comments);
                \* "raised_preprocess" / "raised_analyze": an exception left
                \* preprocess_comments / analyze_comments_vader (HTTP 500)
                \* (or the position of the function that a smaller
                \* specification applies: scorer, aggregator, normalizer)
  idx,          \* index of the comment the current loop is at
  cur,          \* preprocess_comments: text, clean, corrected of the iteration
  processed,    \* preprocess_comments: processed; then the analyzed list
  speller,      \* preprocessing.py global _speller
  vader,        \* vader_analyzer.py global _vader_analyzer
  report,       \* what the handler computed after the two loops
  engineCalls,  \* texts handed to analyzer.polarity_scores, in order
  tpc,          \* worker threads: position of each thread
  tlocal,       \* worker threads: the analyzer reference each thread holds
  instances,    \* worker threads: lexicon state of each constructed analyzer
  observed      \* worker threads: lexicon states seen by polarity_scores

vars == <<raw, pc, idx, cur, processed, speller, vader, report, engineCalls,
          tpc, tlocal, instances, observed>>

----------------------------------------------------------------------------
(* Characters and character classes (Python str / re semantics).           *)

LowerSeq ==
  <<"a","b","c","d","e","f","g","h","i","j","k","l","m",
    "n","o","p","q","r","s","t","u","v","w","x","y","z">>

UpperSeq ==
  <<"A","B","C","D","E","F","G","H","I","J","K","L","M",
    "N","O","P","Q","R","S","T","U","V","W","X","Y","Z">>

IsLowerAscii(c) == \E k \in 1..26 : LowerSeq[k] = c

\* str.isupper() of one character
IsUpper(c) == \E k \in 1..26 : UpperSeq[k] = c

\* [a-zA-Z]
IsAsciiLetter(c) == IsLowerAscii(c) \/ IsUpper(c)

\* \d and str.isdigit()
IsDigit(c) == c \in {"0","1","2","3","4","5","6","7","8","9"}

\* \s
IsSpace(c) == c \in {" ", "\t", "\n"}

\* emoji recognised by the emoji package, with their demojize names
EmojiChars == {"<fire>", "<grinning_face>"}

EmojiName(c) ==
  IF c = "<fire>" THEN <<"f","i","r","e">>
  ELSE <<"g","r","i","n","n","i","n","g","_","f","a","c","e">>

\* non-ASCII letters (matched by \w, not by [a-zA-Z])
NonAsciiLetters == {"<eacute>"}

\* [^\x00-\x7F]
IsNonAscii(c) == c \in EmojiChars \/ c \in NonAsciiLetters

\* \w (Unicode aware for str patterns)
IsWord(c) == IsAsciiLetter(c) \/ IsDigit(c) \/ c = "_" \/ c \in NonAsciiLetters

\* \S
IsNonSpace(c) == ~IsSpace(c)

\* str.lower() of one character
LowerChar(c) ==
  IF IsUpper(c) THEN LowerSeq[CHOOSE k \in 1..26 : UpperSeq[k] = c] ELSE c

\* str.lower()
ToLower(s) == [k \in 1..Len(s) |-> LowerChar(s[k])]

\* the character at position p, "" past either end
At(s, p) == IF p \in 1..Len(s) THEN s[p] ELSE ""

\* whether the literal lit stands in s at position p
LitAt(s, p, lit) ==
  /\ p >= 1
  /\ p + Len(lit) - 1 <= Len(s)
  /\ \A k \in 1..Len(lit) : s[p + k - 1] = lit[k]

\* Python: sub in s
Contains(s, sub) == \E p \in 1..(Len(s) + 1) : LitAt(s, p, sub)

\* str.startswith
StartsWith(s, prefix) == LitAt(s, 1, prefix)

\* length of the longest run of characters satisfying P starting at p
RECURSIVE RunLen(_, _, _)
RunLen(P(_), s, p) ==
  IF p \in 1..Len(s) /\ P(s[p]) THEN 1 + RunLen(P, s, p + 1) ELSE 0

\* length of the run of copies of s[p] starting at p
RECURSIVE SameRun(_, _)
SameRun(s, p) ==
  IF p < Len(s) /\ s[p + 1] = s[p] THEN 1 + SameRun(s, p + 1) ELSE 1

\* str.strip(): whitespace removed at both ends
RECURSIVE LStrip(_)
LStrip(s) == IF s # <<>> /\ IsSpace(Head(s)) THEN LStrip(Tail(s)) ELSE s

RECURSIVE RStrip(_)
RStrip(s) ==
  IF s # <<>> /\ IsSpace(s[Len(s)]) THEN RStrip(SubSeq(s, 1, Len(s) - 1)) ELSE s

Strip(s) == RStrip(LStrip(s))

\* str.strip('.,!?;:')
IsWordPunct(c) == c \in {".", ",", "!", "?", ";", ":"}

RECURSIVE LStripPunct(_)
LStripPunct(s) ==
  IF s # <<>> /\ IsWordPunct(Head(s)) THEN LStripPunct(Tail(s)) ELSE s

RECURSIVE RStripPunct(_)
RStripPunct(s) ==
  IF s # <<>> /\ IsWordPunct(s[Len(s)])
  THEN RStripPunct(SubSeq(s, 1, Len(s) - 1)) ELSE s

StripPunct(s) == RStripPunct(LStripPunct(s))

\* str.split(): the maximal runs of non-whitespace, in order
RECURSIVE SplitFrom(_, _)
SplitFrom(s, p) ==
  IF p > Len(s) THEN <<>>
  ELSE IF IsSpace(s[p]) THEN SplitFrom(s, p + 1)
  ELSE LET n == RunLen(IsNonSpace, s, p)
       IN  <<SubSeq(s, p, p + n - 1)>> \o SplitFrom(s, p + n)

Split(s) == SplitFrom(s, 1)

\* ' '.join(words)
RECURSIVE Join(_)
Join(words) ==
  IF words = <<>> THEN <<>>
  ELSE IF Len(words) = 1 THEN words[1]
  ELSE words[1] \o <<" ">> \o Join(Tail(words))

\* re.sub for a pattern that matches no empty string: M(s, p) is the length
\* of the match starting at p (0: none), R(s, p, n) what replaces it
RECURSIVE ReSub(_, _, _, _)
ReSub(M(_, _), R(_, _, _), s, p) ==
  IF p > Len(s) THEN <<>>
  ELSE LET n == M(s, p)
       IN  IF n > 0 THEN R(s, p, n) \o ReSub(M, R, s, p + n)
           ELSE <<s[p]>> \o ReSub(M, R, s, p + 1)

ReplNothing(s, p, n) == <<>>
ReplSpace(s, p, n) == <<" ">>

----------------------------------------------------------------------------
(* clean_text (the Normalizer), stage by stage.                            *)

\* emoji.demojize(text, delimiters=(" ", " "))
RECURSIVE Demojize(_)
Demojize(s) ==
  IF s = <<>> THEN <<>>
  ELSE IF Head(s) \in EmojiChars
       THEN <<" ">> \o EmojiName(Head(s)) \o <<" ">> \o Demojize(Tail(s))
       ELSE <<Head(s)>> \o Demojize(Tail(s))

\* http[s]?://\S+
MatchHttp(s, p) ==
  IF ~LitAt(s, p, <<"h","t","t","p">>) THEN 0
  ELSE LET q == IF At(s, p + 4) = "s" THEN p + 5 ELSE p + 4
           n == RunLen(IsNonSpace, s, q + 3)
       IN  IF LitAt(s, q, <<":","/","/">>) /\ n >= 1 THEN (q + 3 + n) - p ELSE 0

\* www\.\S+
MatchWww(s, p) ==
  LET n == RunLen(IsNonSpace, s, p + 4)
  IN  IF LitAt(s, p, <<"w","w","w",".">>) /\ n >= 1 THEN 4 + n ELSE 0

\* :\d{2}(:\d{2})? at q: its length, 0 if it does not match
MatchTimestampTail(s, q) ==
  IF At(s, q) = ":" /\ IsDigit(At(s, q + 1)) /\ IsDigit(At(s, q + 2))
  THEN IF At(s, q + 3) = ":" /\ IsDigit(At(s, q + 4)) /\ IsDigit(At(s, q + 5))
       THEN 6 ELSE 3
  ELSE 0

\* \d{1,2}:\d{2}(:\d{2})?   (two leading digits are tried before one)
MatchTimestamp(s, p) ==
  IF ~IsDigit(At(s, p)) THEN 0
  ELSE IF IsDigit(At(s, p + 1)) /\ MatchTimestampTail(s, p + 2) > 0
       THEN 2 + MatchTimestampTail(s, p + 2)
  ELSE IF MatchTimestampTail(s, p + 1) > 0
       THEN 1 + MatchTimestampTail(s, p + 1)
  ELSE 0

\* @\w+
MatchMention(s, p) ==
  LET n == RunLen(IsWord, s, p + 1)
  IN  IF At(s, p) = "@" /\ n >= 1 THEN 1 + n ELSE 0

\* #(\w+)  ->  \1
MatchHashtag(s, p) ==
  LET n == RunLen(IsWord, s, p + 1)
  IN  IF At(s, p) = "#" /\ n >= 1 THEN 1 + n ELSE 0

ReplHashtag(s, p, n) == SubSeq(s, p + 1, p + n - 1)

\* (.)\1{3,}  ->  \1\1     (. matches no newline)
MatchRepeated(s, p) ==
  LET n == SameRun(s, p)
  IN  IF s[p] # "\n" /\ n >= 4 THEN n ELSE 0

ReplRepeated(s, p, n) == <<s[p], s[p]>>

\* [!]{2,}  ->  !
IsBang(c) == c = "!"
MatchBangs(s, p) ==
  LET n == RunLen(IsBang, s, p) IN IF n >= 2 THEN n ELSE 0
ReplBang(s, p, n) == <<"!">>

\* [?]{2,}  ->  ?
IsQuestion(c) == c = "?"
MatchQuestions(s, p) ==
  LET n == RunLen(IsQuestion, s, p) IN IF n >= 2 THEN n ELSE 0
ReplQuestion(s, p, n) == <<"?">>

\* [.]{3,}  ->  ...
IsDot(c) == c = "."
MatchDots(s, p) ==
  LET n == RunLen(IsDot, s, p) IN IF n >= 3 THEN n ELSE 0
ReplDots(s, p, n) == <<".", ".", ".">>

\* [^\x00-\x7F]+  ->  ' '
MatchNonAscii(s, p) == RunLen(IsNonAscii, s, p)

\* \s+  ->  ' '
MatchSpaces(s, p) == RunLen(IsSpace, s, p)

clean_text(text) ==
  IF text = <<>> THEN <<>>
  ELSE
    LET t1  == Demojize(text)
        t2  == ReSub(MatchHttp, ReplNothing, t1, 1)
        t3  == ReSub(MatchWww, ReplNothing, t2, 1)
        t4  == ReSub(MatchTimestamp, ReplNothing, t3, 1)
        t5  == ReSub(MatchMention, ReplNothing, t4, 1)
        t6  == ReSub(MatchHashtag, ReplHashtag, t5, 1)
        t7  == ReSub(MatchRepeated, ReplRepeated, t6, 1)
        t8  == ReSub(MatchBangs, ReplBang, t7, 1)
        t9  == ReSub(MatchQuestions, ReplQuestion, t8, 1)
        t10 == ReSub(MatchDots, ReplDots, t9, 1)
        t11 == ReSub(MatchNonAscii, ReplSpace, t10, 1)
    IN  Strip(ReSub(MatchSpaces, ReplSpace, t11, 1))

----------------------------------------------------------------------------
(* Configuration (app/config.py, class Settings).                          *)

SPAM_KEYWORDS ==
  << <<"s","u","b","s","c","r","i","b","e"," ","t","o"," ","m","y"," ","c","h","a","n","n","e","l">>,
     <<"c","h","e","c","k"," ","o","u","t"," ","m","y">>,
     <<"v","i","s","i","t"," ","m","y"," ","p","r","o","f","i","l","e">>,
     <<"f","r","e","e"," ","v","-","b","u","c","k","s">>,
     <<"f","r","e","e"," ","r","o","b","u","x">>,
     <<"c","l","i","c","k"," ","h","e","r","e">>,
     <<"l","i","n","k"," ","i","n"," ","b","i","o">>,
     <<"g","i","v","e","a","w","a","y">>,
     <<"d","m"," ","m","e">>,
     <<"f","o","l","l","o","w"," ","m","e">> >>

TROLL_INDICATORS ==
  << <<"f","i","r","s","t">>,
     <<"r","a","t","i","o">>,
     <<"n","o","b","o","d","y",":">>,
     <<"n","o"," ","o","n","e",":">>,
     <<"L"," ","+"," ","r","a","t","i","o">> >>

MIN_COMMENT_LENGTH == 3

\* Settings.MAX_COMMENT_LENGTH, a configuration value (default 500); the
\* model is configured with a small maximum so that its texts exceed it
MAX_COMMENT_LENGTH == 24

\* Settings.VADER_COMPOUND_THRESHOLD_POSITIVE = 0.05, in hundredths
VADER_COMPOUND_THRESHOLD_POSITIVE == 5

\* Settings.VADER_COMPOUND_THRESHOLD_NEGATIVE = -0.3, in hundredths
VADER_COMPOUND_THRESHOLD_NEGATIVE == -30

----------------------------------------------------------------------------
(* detect_spam, detect_troll, classify_comment, is_valid_comment.          *)

\* for keyword in settings.SPAM_KEYWORDS: keyword.lower() in text_lower
SpamKeywordSignal(text) ==
  \E k \in 1..Len(SPAM_KEYWORDS) :
     Contains(ToLower(text), ToLower(SPAM_KEYWORDS[k]))

\* sum(1 for c in text if c.isupper())
CapsCount(text) == Cardinality({k \in 1..Len(text) : IsUpper(text[k])})

\* len(text) > 10 and caps_ratio > 0.7
SpamCapsSignal(text) ==
  Len(text) > 10 /\ 10 * CapsCount(text) > 7 * Len(text)

\* emoji.emoji_count(text)
emoji_count(text) == Cardinality({k \in 1..Len(text) : text[k] \in EmojiChars})

\* emoji_count / len(text.split()) divides by zero
SpamEmojiRaises(text) == Len(text) > 0 /\ Len(Split(text)) = 0

\* len(text) > 0 and emoji_count / len(text.split()) > 2
SpamEmojiSignal(text) ==
  Len(text) > 0 /\ Len(Split(text)) > 0
    /\ emoji_count(text) > 2 * Len(Split(text))

\* re.search(r'(.)\1{4,}', text)
SpamRepeatSignal(text) ==
  \E p \in 1..Len(text) : text[p] # "\n" /\ SameRun(text, p) >= 5

\* the position after the whitespace run starting at q
SkipSpaces(s, q) == q + RunLen(IsSpace, s, q)

\* (my|me) at q
MyOrMeAt(s, q) == LitAt(s, q, <<"m","y">>) \/ LitAt(s, q, <<"m","e">>)

\* sub(scribe)?\s*(to)?\s*(my|me)
PromoSubscribeAt(s, p) ==
  /\ LitAt(s, p, <<"s","u","b">>)
  /\ LET q1 == IF LitAt(s, p + 3, <<"s","c","r","i","b","e">>) THEN p + 9 ELSE p + 3
         q2 == SkipSpaces(s, q1)
         q3 == IF LitAt(s, q2, <<"t","o">>) THEN q2 + 2 ELSE q2
     IN  MyOrMeAt(s, SkipSpaces(s, q3))

\* check\s*(out)?\s*(my|me)
PromoCheckAt(s, p) ==
  /\ LitAt(s, p, <<"c","h","e","c","k">>)
  /\ LET q1 == SkipSpaces(s, p + 5)
         q2 == IF LitAt(s, q1, <<"o","u","t">>) THEN q1 + 3 ELSE q1
     IN  MyOrMeAt(s, SkipSpaces(s, q2))

\* follow\s*(me|my)
PromoFollowAt(s, p) ==
  /\ LitAt(s, p, <<"f","o","l","l","o","w">>)
  /\ MyOrMeAt(s, SkipSpaces(s, p + 6))

\* \d+\s*subscribers?
PromoSubscribersAt(s, p) ==
  /\ IsDigit(At(s, p))
  /\ LitAt(s, SkipSpaces(s, p + 1), <<"s","u","b","s","c","r","i","b","e","r">>)

\* gift\s*card
PromoGiftCardAt(s, p) ==
  /\ LitAt(s, p, <<"g","i","f","t">>)
  /\ LitAt(s, SkipSpaces(s, p + 4), <<"c","a","r","d">>)

\* free\s*(money|cash|gift)
PromoFreeAt(s, p) ==
  /\ LitAt(s, p, <<"f","r","e","e">>)
  /\ LET q == SkipSpaces(s, p + 4)
     IN  \/ LitAt(s, q, <<"m","o","n","e","y">>)
         \/ LitAt(s, q, <<"c","a","s","h">>)
         \/ LitAt(s, q, <<"g","i","f","t">>)

\* for pattern in promo_patterns: re.search(pattern, text_lower)
SpamPromoSignal(text) ==
  LET s == ToLower(text)
  IN  \E p \in 1..Len(s) :
         \/ PromoSubscribeAt(s, p)
         \/ PromoCheckAt(s, p)
         \/ PromoFollowAt(s, p)
         \/ PromoSubscribersAt(s, p)
         \/ PromoGiftCardAt(s, p)
         \/ PromoFreeAt(s, p)

\* detect_spam: "True", "False", or "ZeroDivisionError" when the emoji
\* density is computed for a text without a word
detect_spam(text) ==
  IF SpamKeywordSignal(text) THEN "True"
  ELSE IF SpamCapsSignal(text) THEN "True"
  ELSE IF SpamEmojiRaises(text) THEN "ZeroDivisionError"
  ELSE IF SpamEmojiSignal(text) THEN "True"
  ELSE IF SpamRepeatSignal(text) THEN "True"
  ELSE IF SpamPromoSignal(text) THEN "True"
  ELSE "False"

\* whether every character of s from position p on is "!"
OnlyBangsFrom(s, p) == \A k \in p..Len(s) : s[k] = "!"

\* text_lower == indicator.lower() or text_lower.startswith(indicator.lower())
TrollIndicatorSignal(text_lower) ==
  \E k \in 1..Len(TROLL_INDICATORS) :
     \/ text_lower = ToLower(TROLL_INDICATORS[k])
     \/ StartsWith(text_lower, ToLower(TROLL_INDICATORS[k]))

\* re.match(r'^(first|1st|i\'?m first)!*$', text_lower)
TrollFirstSignal(text_lower) ==
  \E alt \in { <<"f","i","r","s","t">>, <<"1","s","t">>,
               <<"i","'","m"," ","f","i","r","s","t">>,
               <<"i","m"," ","f","i","r","s","t">> } :
     StartsWith(text_lower, alt) /\ OnlyBangsFrom(text_lower, Len(alt) + 1)

\* re.match(r'^ratio!*$', text_lower) or 'L + ratio' in text_lower
TrollRatioSignal(text_lower) ==
  \/ /\ StartsWith(text_lower, <<"r","a","t","i","o">>)
     /\ OnlyBangsFrom(text_lower, 6)
  \/ Contains(text_lower, <<"L"," ","+"," ","r","a","t","i","o">>)

\* re.match(r'^(nobody|no\s*one|literally\s*nobody):', text_lower)
TrollNobodySignal(text_lower) ==
  \/ StartsWith(text_lower, <<"n","o","b","o","d","y",":">>)
  \/ /\ StartsWith(text_lower, <<"n","o">>)
     /\ LitAt(text_lower, SkipSpaces(text_lower, 3), <<"o","n","e",":">>)
  \/ /\ StartsWith(text_lower, <<"l","i","t","e","r","a","l","l","y">>)
     /\ LitAt(text_lower, SkipSpaces(text_lower, 10),
              <<"n","o","b","o","d","y",":">>)

\* len(text_lower) <= 5 and text_lower in ['mid', 'bad', ...]
TrollShortSignal(text_lower) ==
  /\ Len(text_lower) <= 5
  /\ text_lower \in { <<"m","i","d">>, <<"b","a","d">>, <<"t","r","a","s","h">>,
                      <<"f","a","k","e">>, <<"c","a","p">>, <<"l">>, <<"w">> }

detect_troll(text) ==
  LET text_lower == Strip(ToLower(text))
  IN  \/ TrollIndicatorSignal(text_lower)
      \/ TrollFirstSignal(text_lower)
      \/ TrollRatioSignal(text_lower)
      \/ TrollNobodySignal(text_lower)
      \/ TrollShortSignal(text_lower)

\* faulty variant: the troll check runs before the spam check
classify_comment_TrollFirst(text) ==
  IF detect_troll(text) THEN "troll"
  ELSE IF detect_spam(text) = "ZeroDivisionError" THEN "ZeroDivisionError"
  ELSE IF detect_spam(text) = "True" THEN "spam"
  ELSE "normal"

\* CommentType: "normal", "spam", "troll"; "ZeroDivisionError" when
\* detect_spam raises
classify_comment(text) ==
  IF detect_spam(text) = "ZeroDivisionError" THEN "ZeroDivisionError"
  ELSE IF detect_spam(text) = "True" THEN "spam"
  ELSE IF detect_troll(text) THEN "troll"
  ELSE "normal"

\* faulty variant: the minimum length is not checked
is_valid_comment_NoMinLength(text) ==
  IF text = <<>> THEN FALSE
  ELSE IF ~(\E k \in 1..Len(text) : IsAsciiLetter(text[k])) THEN FALSE
  ELSE TRUE

\* is_valid_comment, for a str
is_valid_comment(text) ==
  IF text = <<>> THEN FALSE
  ELSE IF Len(Strip(text)) < MIN_COMMENT_LENGTH THEN FALSE
  ELSE IF ~(\E k \in 1..Len(text) : IsAsciiLetter(text[k])) THEN FALSE
  ELSE TRUE

----------------------------------------------------------------------------
(* autocorrect_text (the Selective Corrector).                             *)

preserve_words ==
  { <<"l","o","l">>, <<"l","m","a","o">>, <<"o","m","g">>, <<"b","t","w">>,
    <<"i","d","k">>, <<"i","m","o">>, <<"i","m","h","o">>, <<"t","b","h">>,
    <<"n","g","l">>, <<"f","r">>, <<"g","g">>, <<"e","z">>, <<"p","o","g">>,
    <<"p","o","g","g","e","r","s">>, <<"b","r","u","h">>, <<"b","r","o">>,
    <<"d","u","d","e">>, <<"l","i","t">>, <<"g","o","a","t">>,
    <<"g","o","a","t","e","d">>, <<"s","u","s">>, <<"c","a","p">>,
    <<"n","o","c","a","p">>, <<"v","i","b","e","s">>, <<"v","i","b","e">>,
    <<"f","i","r","e">>, <<"b","a","s","e","d">>, <<"c","r","i","n","g","e">>,
    <<"y","e","e","t">>, <<"f","a","m">> }

\* the external engine, speller(word), when it does not raise: a dictionary
\* of known misspellings, every other word returned as it is
SpellerCorrect(word) ==
  IF word = <<"t","e","h">> THEN <<"t","h","e">>
  ELSE IF word = <<"g","u","d">> THEN <<"g","o","o","d">>
  ELSE IF word = <<"r","e","a","l","y">> THEN <<"r","e","a","l","l","y">>
  ELSE word

\* the negation of: word_lower in preserve_words or len(word) <= 2 or
\* any(c.isdigit() for c in word)
NeedsSpeller(word) ==
  ~ \/ StripPunct(ToLower(word)) \in preserve_words
    \/ Len(word) <= 2
    \/ \E k \in 1..Len(word) : IsDigit(word[k])

\* how many of the first k words are passed to speller(word)
SpellerCalls(words, k) ==
  Cardinality({j \in 1..k : NeedsSpeller(words[j])})

\* corrected_words after the loop has handled the first k words
CorrectedWords(words, k) ==
  [j \in 1..k |-> IF NeedsSpeller(words[j])
                  THEN SpellerCorrect(words[j]) ELSE words[j]]

\* Where the external corrector may raise during autocorrect_text(text):
\* 0 nowhere, 1 in Speller(lang='en') (only while _speller is None),
\* 1 + n in the n-th call speller(word)
FailurePoints(text, sp) ==
  IF Len(text) < 3 THEN {0}
  ELSE {0} \cup (IF sp = "None" THEN {1} ELSE {})
           \cup {1 + n : n \in 1..SpellerCalls(Split(text), Len(Split(text)))}

\* faulty variant: the words corrected before the failure are returned
AutocorrectExcept_Partial(text, corrected_words, sp) ==
  [text |-> Join(corrected_words), raised |-> FALSE, speller |-> sp]

\* except Exception: logger.warning(...); return text
AutocorrectExcept(text, corrected_words, sp) ==
  [text |-> text, raised |-> FALSE, speller |-> sp]

\* autocorrect_text with the corrector raising at point fail: the returned
\* text, whether an exception leaves the function, and _speller afterwards
autocorrect_text(text, sp, fail) ==
  IF text = <<>> \/ Len(text) < 3
  THEN [text |-> text, raised |-> FALSE, speller |-> sp]
  ELSE IF fail = 1 THEN AutocorrectExcept(text, <<>>, sp)
  ELSE
    LET words == Split(text)
    IN  IF fail > 1
        THEN LET k == CHOOSE j \in 1..Len(words) :
                        NeedsSpeller(words[j]) /\ SpellerCalls(words, j) = fail - 1
             IN  AutocorrectExcept(text, CorrectedWords(words, k - 1), "Speller")
        ELSE [text    |-> Join(CorrectedWords(words, Len(words))),
              raised  |-> FALSE,
              speller |-> "Speller"]

----------------------------------------------------------------------------
(* Python dicts: a dict is a function from its keys.                       *)

\* d.get(key, default)
Get(d, key, default) == IF key \in DOMAIN d THEN d[key] ELSE default

\* {**d, **e}: the keys of e override those of d
Merge(d, e) ==
  [k \in DOMAIN d \cup DOMAIN e |-> IF k \in DOMAIN e THEN e[k] ELSE d[k]]

\* a value of a raw record's text field: a str, or a value of another type
PyStr(s) == [type |-> "str", value |-> s]
PyOther(type, repr) == [type |-> type, value |-> repr]

----------------------------------------------------------------------------
(* preprocess_comments: the statements of its loop body.                   *)

\* is_valid_comment(text) for the value found in a raw record: "True",
\* "False", or "AttributeError" (text.strip() of a value that is no str)
RawValid(v) ==
  IF v.type = "str" THEN (IF is_valid_comment(v.value) THEN "True" ELSE "False")
  ELSE IF v.type = "NoneType" THEN "False"
  ELSE IF v.type = "int" /\ v.value = <<"0">> THEN "False"
  ELSE "AttributeError"

\* if len(corrected) > settings.MAX_COMMENT_LENGTH:
\*     corrected = corrected[:settings.MAX_COMMENT_LENGTH] + "..."
Truncate(corrected) ==
  IF Len(corrected) > MAX_COMMENT_LENGTH
  THEN SubSeq(corrected, 1, MAX_COMMENT_LENGTH) \o <<".", ".", ".">>
  ELSE corrected

\* faulty variant: the Classifier is given the raw text
ClassifierInput_RawText(text, clean, corrected) == text

\* classify_comment(corrected, ...): of the three texts of the iteration
\* the Classifier is given the corrected and truncated one
ClassifierInput(text, clean, corrected) == corrected

\* faulty variant: only spam is filtered
IsFilteredOf_SpamOnly(comment_type) == comment_type = "spam"

\* 'is_filtered': comment_type != CommentType.NORMAL
IsFilteredOf(comment_type) == comment_type # "normal"

\* processed_comment = {**comment, 'text_original': ..., 'text_clean': ...,
\*                      'comment_type': ..., 'is_filtered': ...}
ProcessedComment(comment, text, corrected, comment_type) ==
  Merge(comment, [text_original |-> text,
                  text_clean    |-> corrected,
                  comment_type  |-> comment_type,
                  is_filtered   |-> IsFilteredOf(comment_type)])

----------------------------------------------------------------------------
(* analyze_sentiment, analyze_comments_vader (the Sentiment Scorer).       *)

\* compound scores the external engine may return (hundredths), among them
\* both thresholds and their neighbours
Compounds == {-60, -30, -29, 4, 5, 70}

\* analyzer.polarity_scores(text): the engine returns a compound or raises
EngineOutcomes ==
  {[raised |-> FALSE, compound |-> c] : c \in Compounds}
    \cup {[raised |-> TRUE, compound |-> 0]}

\* faulty variant: a compound equal to a threshold is Neutral
SentimentOf_Strict(compound) ==
  IF compound > VADER_COMPOUND_THRESHOLD_POSITIVE THEN "positive"
  ELSE IF compound < VADER_COMPOUND_THRESHOLD_NEGATIVE THEN "negative"
  ELSE "neutral"

\* the classification by the two thresholds
SentimentOf(compound) ==
  IF compound >= VADER_COMPOUND_THRESHOLD_POSITIVE THEN "positive"
  ELSE IF compound <= VADER_COMPOUND_THRESHOLD_NEGATIVE THEN "negative"
  ELSE "neutral"

\* analyze_sentiment(text) once the analyzer is there: (sentiment, compound),
\* or the engine's exception, which nothing in the function catches
analyze_sentiment(text, out) ==
  IF out.raised
  THEN [raised |-> TRUE, sentiment |-> "none", compound |-> 0]
  ELSE [raised |-> FALSE, sentiment |-> SentimentOf(out.compound),
        compound |-> out.compound]

\* text = comment.get('text_clean', comment.get('text', ''))
AnalyzedText(comment) ==
  IF "text_clean" \in DOMAIN comment THEN comment.text_clean
  ELSE Get(comment, "text", PyStr(<<>>)).value

\* whether the loop body hands the comment's text to the engine
EngineCalled(comment) == AnalyzedText(comment) # <<>>

\* what the loop body does when polarity_scores raises: no handler encloses
\* the call, the exception leaves analyze_comments_vader
AnalyzeEngineError(comment) == [outcome |-> "raise", comment |-> comment]

\* The body of "for comment in comments" of analyze_comments_vader for one
\* comment, the engine answering out
AnalyzeOne(comment, out) ==
  IF ~EngineCalled(comment)
  THEN [outcome |-> "scored",
        comment |-> Merge(comment, [sentiment       |-> "neutral",
                                    sentiment_score |-> 0])]
  ELSE IF out.raised THEN AnalyzeEngineError(comment)
  ELSE [outcome |-> "scored",
        comment |-> Merge(comment, [sentiment       |-> SentimentOf(out.compound),
                                    sentiment_score |-> out.compound])]

----------------------------------------------------------------------------
(* calculate_sentiment_distribution, get_extreme_comments,                 *)
(* calculate_filtered_stats, create_comment_data (the Aggregator/Ranker).  *)

Abs(x) == IF x < 0 THEN 0 - x ELSE x

\* round(num / den) to the nearest integer, ties to even (den > 0)
RoundDiv(num, den) ==
  LET a == Abs(num)
      q == a \div den
      r == a % den
      m == IF 2 * r > den \/ (2 * r = den /\ q % 2 = 1) THEN q + 1 ELSE q
  IN  IF num < 0 THEN 0 - m ELSE m

\* faulty variant: the filter of the statistics lets every comment through
IsValidForStats_All(c) == TRUE

\* [c for c in comments if not c.get('is_filtered', False)]
IsValidForStats(c) == ~Get(c, "is_filtered", FALSE)

\* faulty variant: valid_comments is the whole batch
ValidComments_Unfiltered(comments) == comments

\* valid_comments
ValidComments(comments) == SelectSeq(comments, IsValidForStats)

\* sum(1 for c in cs if c.get('sentiment') == label)
CountSentiment(cs, label) ==
  Cardinality({k \in 1..Len(cs) : Get(cs[k], "sentiment", "None") = label})

\* sum(c.get('sentiment_score', 0) for c in cs)
RECURSIVE SumScores(_)
SumScores(cs) ==
  IF cs = <<>> THEN 0
  ELSE Get(Head(cs), "sentiment_score", 0) + SumScores(Tail(cs))

\* faulty variant: total is the length of the whole batch
calculate_sentiment_distribution_TotalOfBatch(comments) ==
  LET valid_comments == ValidComments(comments)
      total == Len(comments)
      positive == CountSentiment(valid_comments, "positive")
      negative == CountSentiment(valid_comments, "negative")
      neutral  == CountSentiment(valid_comments, "neutral")
  IN  IF valid_comments = <<>>
      THEN [positive |-> 0, negative |-> 0, neutral |-> 0,
            positive_percentage |-> 0, negative_percentage |-> 0,
            neutral_percentage |-> 0, average_sentiment |-> 0]
      ELSE [positive |-> positive, negative |-> negative, neutral |-> neutral,
            positive_percentage |-> RoundDiv(1000 * positive, total),
            negative_percentage |-> RoundDiv(1000 * negative, total),
            neutral_percentage  |-> RoundDiv(1000 * neutral, total),
            average_sentiment   |-> RoundDiv(10 * SumScores(valid_comments), total)]

\* SentimentDistribution; percentages in tenths of a percent, the average
\* in thousandths
calculate_sentiment_distribution(comments) ==
  LET valid_comments == ValidComments(comments)
      total == Len(valid_comments)
      positive == CountSentiment(valid_comments, "positive")
      negative == CountSentiment(valid_comments, "negative")
      neutral  == CountSentiment(valid_comments, "neutral")
  IN  IF valid_comments = <<>>
      THEN [positive |-> 0, negative |-> 0, neutral |-> 0,
            positive_percentage |-> 0, negative_percentage |-> 0,
            neutral_percentage |-> 0, average_sentiment |-> 0]
      ELSE [positive |-> positive, negative |-> negative, neutral |-> neutral,
            positive_percentage |-> RoundDiv(1000 * positive, total),
            negative_percentage |-> RoundDiv(1000 * negative, total),
            neutral_percentage  |-> RoundDiv(1000 * neutral, total),
            average_sentiment   |-> RoundDiv(10 * SumScores(valid_comments), total)]

\* sorted(): the elements of seq, x before y when Before(x, y), elements
\* that Before does not order kept in their order in seq (stable)
RECURSIVE InsertSorted(_, _, _)
InsertSorted(Before(_, _), sorted, x) ==
  IF sorted = <<>> THEN <<x>>
  ELSE IF Before(x, Head(sorted)) THEN <<x>> \o sorted
  ELSE <<Head(sorted)>> \o InsertSorted(Before, Tail(sorted), x)

RECURSIVE StableSort(_, _)
StableSort(Before(_, _), seq) ==
  IF seq = <<>> THEN <<>>
  ELSE InsertSorted(Before, StableSort(Before, SubSeq(seq, 1, Len(seq) - 1)),
                    seq[Len(seq)])

ScoreOf(c) == Get(c, "sentiment_score", 0)

\* faulty variant: the descending sort puts equal scores in reverse order
BeforeDescending_TiesReversed(x, y) == ScoreOf(x) >= ScoreOf(y)

\* key=score, reverse=True
BeforeDescending(x, y) == ScoreOf(x) > ScoreOf(y)
\* key=score
BeforeAscending(x, y) == ScoreOf(x) < ScoreOf(y)
\* key=abs(score)
BeforeAbsAscending(x, y) == Abs(ScoreOf(x)) < Abs(ScoreOf(y))

\* c.get('sentiment') == sentiment and not c.get('is_filtered', False)
ExtremeCandidates(comments, sentiment) ==
  LET Keep(c) == Get(c, "sentiment", "None") = sentiment
                   /\ ~Get(c, "is_filtered", FALSE)
  IN  SelectSeq(comments, Keep)

\* sorted_comments[:n] for n >= 0
FirstN(seq, n) == SubSeq(seq, 1, IF n < Len(seq) THEN n ELSE Len(seq))

get_extreme_comments(comments, sentiment, n) ==
  LET filtered == ExtremeCandidates(comments, sentiment)
      sorted_comments ==
        IF sentiment = "positive" THEN StableSort(BeforeDescending, filtered)
        ELSE IF sentiment = "negative" THEN StableSort(BeforeAscending, filtered)
        ELSE StableSort(BeforeAbsAscending, filtered)
  IN  FirstN(sorted_comments, n)

\* sum(1 for c in comments if c.get('comment_type') == ctype)
CountType(comments, ctype) ==
  Cardinality({k \in 1..Len(comments) :
                 Get(comments[k], "comment_type", "None") = ctype})

\* faulty variant: the percentages are shares of the filtered comments
calculate_filtered_stats_OfFiltered(comments) ==
  LET spam_count == CountType(comments, "spam")
      troll_count == CountType(comments, "troll")
      total == spam_count + troll_count
  IN  [total_filtered |-> spam_count + troll_count,
       spam_count |-> spam_count,
       troll_count |-> troll_count,
       spam_percentage |->
         IF total > 0 THEN RoundDiv(1000 * spam_count, total) ELSE 0,
       troll_percentage |->
         IF total > 0 THEN RoundDiv(1000 * troll_count, total) ELSE 0]

\* FilteredStats; percentages in tenths of a percent
calculate_filtered_stats(comments) ==
  LET total == Len(comments)
      spam_count == CountType(comments, "spam")
      troll_count == CountType(comments, "troll")
  IN  [total_filtered |-> spam_count + troll_count,
       spam_count |-> spam_count,
       troll_count |-> troll_count,
       spam_percentage |->
         IF total > 0 THEN RoundDiv(1000 * spam_count, total) ELSE 0,
       troll_percentage |->
         IF total > 0 THEN RoundDiv(1000 * troll_count, total) ELSE 0]

\* CommentData(...) built with the defaults of comment.get
create_comment_data(comment) ==
  [id              |-> Get(comment, "id", ""),
   text            |-> Get(comment, "text", PyStr(<<>>)),
   text_clean      |-> AnalyzedText(comment),
   author          |-> Get(comment, "author", "Unknown"),
   likes           |-> Get(comment, "likes", 0),
   reply_count     |-> Get(comment, "reply_count", 0),
   timestamp       |-> Get(comment, "timestamp", "None"),
   sentiment       |-> Get(comment, "sentiment", "neutral"),
   sentiment_score |-> Get(comment, "sentiment_score", 0),
   comment_type    |-> Get(comment, "comment_type", "normal"),
   is_filtered     |-> Get(comment, "is_filtered", FALSE)]

\* faulty variant: the ranking sorts the batch itself (list.sort)
CommentsAfterAggregation_SortedInPlace(comments) ==
  StableSort(BeforeDescending, comments)

\* The list handed to calculate_sentiment_distribution,
\* calculate_filtered_stats and get_extreme_comments, after they returned:
\* they build new lists (comprehensions, sorted(), slices) and assign to no
\* item and no key of the list they are given
CommentsAfterAggregation(comments) == comments

\* the number of extreme comments the handler asks for
TOP_N == 5

\* the statistics and rankings of analyze_comments (main.py)
BuildReport(raw_comments, analyzed) ==
  LET top_positive == get_extreme_comments(analyzed, "positive", TOP_N)
      top_negative == get_extreme_comments(analyzed, "negative", TOP_N)
  IN  [total_comments         |-> Len(raw_comments),
       analyzed_comments      |-> Len(analyzed),
       sentiment_distribution |-> calculate_sentiment_distribution(analyzed),
       filtered_stats         |-> calculate_filtered_stats(analyzed),
       top_positive_comments  |->
         [k \in 1..Len(top_positive) |-> create_comment_data(top_positive[k])],
       top_negative_comments  |->
         [k \in 1..Len(top_negative) |-> create_comment_data(top_negative[k])]]

----------------------------------------------------------------------------
(* The request handler: preprocess_comments, analyze_comments_vader and    *)
(* the aggregation, over one batch.                                        *)

\* the largest batch
MaxBatch == 2

\* Raw records a batch is made of (their id is given by their place in the
\* batch): well-formed records as the scraper builds them, records with
\* fields missing, a text that is no str, and keys the pipeline also writes
RawCorpus ==
  << [text |-> PyStr(<<"t","e","h"," ","v","i","d"," ","i","s"," ","g","u","d">>),
      author |-> "ann", likes |-> 3],
     [text |-> PyStr(<<"f","i","r","s","t"," ","f","o","l","l","o","w"," ","m","e">>),
      author |-> "bob", likes |-> 0],
     [text |-> PyStr(<<"F","I","R","S","T","!","!","!">>),
      author |-> "cy", likes |-> 1],
     [text |-> PyStr(<<"o","k">>), author |-> "dee", likes |-> 0],
     [text |-> PyStr(<<"@","b","o","b"," ","1",":","2","3">>),
      author |-> "eve", likes |-> 0],
     [text |-> PyStr(<<"t","h","i","s"," ","t","u","t","o","r","i","a","l"," ",
                       "i","s"," ","r","e","a","l","y"," ","g","u","d"," ",
                       "t","h","x">>),
      author |-> "fay", likes |-> 7],
     [likes |-> 0],
     [text |-> PyStr(<<"n","i","c","e"," ","v","i","d","e","o">>)],
     [text |-> PyOther("int", <<"7">>), author |-> "gus", likes |-> 0],
     [text |-> PyStr(<<"l","o","o","o","o","o","v","e"," ","i","t"," ","<fire>">>),
      author |-> "hal", likes |-> 2,
      is_filtered |-> TRUE, comment_type |-> "spam"] >>

\* the batches of at most MaxBatch records (an empty batch is answered with
\* 404 before the pipeline runs)
Batches ==
  UNION { { [i \in 1..n |-> Merge(RawCorpus[choice[i]], [id |-> ToString(i)])] :
            choice \in [1..n -> 1..Len(RawCorpus)] } : n \in 1..MaxBatch }

NoReport == [total_comments |-> -1]

\* the locals of the loop body of preprocess_comments, before an iteration
NoLocals == [text |-> <<>>, clean |-> <<>>, corrected |-> <<>>]

\* the module globals after import, and a batch handed to the handler
Init ==
  /\ raw \in Batches
  /\ pc = "validate_raw"
  /\ idx = 1
  /\ cur = NoLocals
  /\ processed = <<>>
  /\ speller = "None"
  /\ vader = 0
  /\ instances = <<>>
  /\ report = NoReport
  /\ engineCalls = <<>>
  /\ tpc = <<>>
  /\ tlocal = <<>>
  /\ observed = {}

PreprocessFrame == <<raw, vader, instances, report, engineCalls, tpc, tlocal, observed>>

\* for comment in comments: text = comment.get('text', '');
\* if not is_valid_comment(text): continue
ValidateRaw ==
  /\ pc = "validate_raw"
  /\ idx <= Len(raw)
  /\ LET text == Get(raw[idx], "text", PyStr(<<>>))
     IN  IF RawValid(text) = "AttributeError"
         THEN /\ pc' = "raised_preprocess"
              /\ UNCHANGED <<idx, cur>>
         ELSE IF RawValid(text) = "False"
         THEN /\ pc' = "validate_raw"
              /\ idx' = idx + 1
              /\ cur' = NoLocals
         ELSE /\ pc' = "clean"
              /\ idx' = idx
              /\ cur' = [NoLocals EXCEPT !.text = text.value]
  /\ UNCHANGED <<processed, speller>>
  /\ UNCHANGED PreprocessFrame

\* clean = clean_text(text)
Clean ==
  /\ pc = "clean"
  /\ cur' = [cur EXCEPT !.clean = clean_text(cur.text)]
  /\ pc' = "validate_clean"
  /\ UNCHANGED <<idx, processed, speller>>
  /\ UNCHANGED PreprocessFrame

\* if not is_valid_comment(clean): continue
ValidateClean ==
  /\ pc = "validate_clean"
  /\ IF is_valid_comment(cur.clean)
     THEN /\ pc' = "autocorrect"
          /\ UNCHANGED <<idx, cur>>
     ELSE /\ pc' = "validate_raw"
          /\ idx' = idx + 1
          /\ cur' = NoLocals
  /\ UNCHANGED <<processed, speller>>
  /\ UNCHANGED PreprocessFrame

\* corrected = autocorrect_text(clean), the external corrector raising at
\* any of the points where it is used, or nowhere
Autocorrect ==
  /\ pc = "autocorrect"
  /\ \E fail \in FailurePoints(cur.clean, speller) :
       \E ac \in {autocorrect_text(cur.clean, speller, fail)} :
          /\ speller' = ac.speller
          /\ IF ac.raised
             THEN /\ pc' = "raised_preprocess"
                  /\ cur' = cur
             ELSE /\ pc' = "truncate"
                  /\ cur' = [cur EXCEPT !.corrected = ac.text]
  /\ UNCHANGED <<idx, processed>>
  /\ UNCHANGED PreprocessFrame

\* if len(corrected) > settings.MAX_COMMENT_LENGTH: corrected = ...
TruncateCorrected ==
  /\ pc = "truncate"
  /\ cur' = [cur EXCEPT !.corrected = Truncate(cur.corrected)]
  /\ pc' = "classify"
  /\ UNCHANGED <<idx, processed, speller>>
  /\ UNCHANGED PreprocessFrame

\* comment_type = classify_comment(corrected, ...);
\* processed.append(processed_comment)
ClassifyAndAppend ==
  /\ pc = "classify"
  /\ \E ctype \in {classify_comment(ClassifierInput(cur.text, cur.clean,
                                                     cur.corrected))} :
       IF ctype = "ZeroDivisionError"
       THEN /\ pc' = "raised_preprocess"
            /\ UNCHANGED <<idx, cur, processed>>
       ELSE /\ processed' = Append(processed,
                                   ProcessedComment(raw[idx], cur.text,
                                                    cur.corrected, ctype))
            /\ pc' = "validate_raw"
            /\ idx' = idx + 1
            /\ cur' = NoLocals
  /\ UNCHANGED speller
  /\ UNCHANGED PreprocessFrame

\* preprocess_comments: the loop is over, the list is returned
PreprocessReturn ==
  /\ pc = "validate_raw"
  /\ idx > Len(raw)
  /\ pc' = "get_analyzer"
  /\ UNCHANGED <<raw, idx, cur, processed, speller, vader, instances, report,
                 engineCalls, tpc, tlocal, observed>>

\* analyze_comments_vader: analyzer = get_vader_analyzer(), run by the one
\* thread of the handler: the analyzer is built and its lexicon updated
GetVaderAnalyzer ==
  /\ pc = "get_analyzer"
  /\ IF vader = 0
     THEN /\ instances' = Append(instances, "overridden")
          /\ vader' = Len(instances) + 1
     ELSE UNCHANGED <<vader, instances>>
  /\ pc' = "analyze"
  /\ idx' = 1
  /\ UNCHANGED <<raw, cur, processed, speller, report, engineCalls, tpc, tlocal,
                 observed>>

\* analyze_comments_vader: one iteration of "for comment in comments"; the
\* comment dict is updated in place
AnalyzeComment ==
  /\ pc = "analyze"
  /\ idx <= Len(processed)
  /\ \E out \in EngineOutcomes :
       LET r == AnalyzeOne(processed[idx], out)
       IN  /\ engineCalls' = IF EngineCalled(processed[idx])
                             THEN Append(engineCalls, AnalyzedText(processed[idx]))
                             ELSE engineCalls
           /\ IF r.outcome = "raise"
              THEN /\ pc' = "raised_analyze"
                   /\ UNCHANGED <<idx, processed>>
              ELSE /\ pc' = pc
                   /\ idx' = idx + 1
                   /\ processed' = [processed EXCEPT ![idx] = r.comment]
  /\ UNCHANGED <<raw, cur, speller, vader, instances, report, tpc, tlocal, observed>>

\* analyze_comments_vader: return comments
AnalyzeReturn ==
  /\ pc = "analyze"
  /\ idx > Len(processed)
  /\ pc' = "aggregate"
  /\ UNCHANGED <<raw, idx, cur, processed, speller, vader, instances, report,
                 engineCalls, tpc, tlocal, observed>>

\* the statistics, the rankings and the response
Aggregate ==
  /\ pc = "aggregate"
  /\ report' = BuildReport(raw, processed)
  /\ processed' = CommentsAfterAggregation(processed)
  /\ pc' = "done"
  /\ UNCHANGED <<raw, idx, cur, speller, vader, instances, engineCalls,
                 tpc, tlocal, observed>>

Next ==
  \/ ValidateRaw
  \/ Clean
  \/ ValidateClean
  \/ Autocorrect
  \/ TruncateCorrected
  \/ ClassifyAndAppend
  \/ PreprocessReturn
  \/ GetVaderAnalyzer
  \/ AnalyzeComment
  \/ AnalyzeReturn
  \/ Aggregate

Spec == Init /\ [][Next]_vars

----------------------------------------------------------------------------
(* Worker threads calling analyze_sentiment / analyze_comments_vader at    *)
(* the same time: get_vader_analyzer statement by statement.               *)

\* the number of worker threads
NumThreads == 2

\* the largest batch a worker thread scores
ThreadBatch == 2

Threads == 1..NumThreads

\* every thread is about to call get_vader_analyzer, from analyze_sentiment
\* (one text) or analyze_comments_vader (a batch)
InitThreads ==
  /\ raw = <<>>
  /\ pc = "threads"
  /\ idx = 1
  /\ cur = NoLocals
  /\ processed = <<>>
  /\ speller = "None"
  /\ vader = 0
  /\ instances = <<>>
  /\ report = NoReport
  /\ engineCalls = <<>>
  /\ tpc \in [Threads -> {[at |-> "check", todo |-> n] : n \in 1..ThreadBatch}]
  /\ tlocal = [t \in Threads |-> 0]
  /\ observed = {}

ThreadFrame == <<raw, pc, idx, cur, processed, speller, report, engineCalls>>

\* line 22: if _vader_analyzer is None
ThreadCheck(t) ==
  /\ tpc[t].at = "check"
  /\ tpc' = [tpc EXCEPT ![t].at = IF vader = 0 THEN "construct" ELSE "return"]
  /\ UNCHANGED <<vader, instances, tlocal, observed>>
  /\ UNCHANGED ThreadFrame

\* line 24: _vader_analyzer = SentimentIntensityAnalyzer()
ThreadConstruct(t) ==
  /\ tpc[t].at = "construct"
  /\ instances' = Append(instances, "base")
  /\ vader' = Len(instances) + 1
  /\ tpc' = [tpc EXCEPT ![t].at = "update"]
  /\ UNCHANGED <<tlocal, observed>>
  /\ UNCHANGED ThreadFrame

\* line 80: _vader_analyzer.lexicon.update(new_words)
ThreadUpdate(t) ==
  /\ tpc[t].at = "update"
  /\ instances' = [instances EXCEPT ![vader] = "overridden"]
  /\ tpc' = [tpc EXCEPT ![t].at = "return"]
  /\ UNCHANGED <<vader, tlocal, observed>>
  /\ UNCHANGED ThreadFrame

\* line 83: return _vader_analyzer
ThreadReturn(t) ==
  /\ tpc[t].at = "return"
  /\ tlocal' = [tlocal EXCEPT ![t] = vader]
  /\ tpc' = [tpc EXCEPT ![t].at = "score"]
  /\ UNCHANGED <<vader, instances, observed>>
  /\ UNCHANGED ThreadFrame

\* analyzer.polarity_scores(text) with the analyzer the thread was given
ThreadScore(t) ==
  /\ tpc[t].at = "score"
  /\ observed' = observed \cup {<<t, instances[tlocal[t]]>>}
  /\ tpc' = [tpc EXCEPT ![t] = IF tpc[t].todo = 1
                                THEN [at |-> "done", todo |-> 0]
                                ELSE [at |-> "score", todo |-> tpc[t].todo - 1]]
  /\ UNCHANGED <<vader, instances, tlocal>>
  /\ UNCHANGED ThreadFrame

NextThreads ==
  \E t \in Threads :
     \/ ThreadCheck(t)
     \/ ThreadConstruct(t)
     \/ ThreadUpdate(t)
     \/ ThreadReturn(t)
     \/ ThreadScore(t)

SpecThreads == InitThreads /\ [][NextThreads]_vars


----------------------------------------------------------------------------
(* The Classifier applied to single texts.                                 *)

\* the largest number of fragments a text is made of
MaxFragments == 3

\* pieces of text that raise or do not raise the spam and troll signals
TextFragments ==
  << <<"f","i","r","s","t">>,
     <<"f","o","l","l","o","w"," ","m","e">>,
     <<" ">>,
     <<"!">>,
     <<"F","R","E","E"," ","G","I","F","T">>,
     <<"n","o","b","o","d","y",":">>,
     <<"w">>,
     <<"a","a","a","a","a">>,
     <<"l"," ","+"," ","r","a","t","i","o">>,
     <<"n","i","c","e">>,
     <<"<fire>">> >>

RECURSIVE Concat(_)
Concat(pieces) ==
  IF pieces = <<>> THEN <<>> ELSE Head(pieces) \o Concat(Tail(pieces))

\* the texts made of at most MaxFragments fragments
TextInputs ==
  UNION { { Concat([i \in 1..n |-> TextFragments[choice[i]]]) :
            choice \in [1..n -> 1..Len(TextFragments)] } : n \in 0..MaxFragments }

InitText ==
  /\ raw = <<>>
  /\ pc = "text"
  /\ idx = 1
  /\ cur \in {[NoLocals EXCEPT !.text = t] : t \in TextInputs}
  /\ processed = <<>>
  /\ speller = "None"
  /\ vader = 0
  /\ instances = <<>>
  /\ report = NoReport
  /\ engineCalls = <<>>
  /\ tpc = <<>>
  /\ tlocal = <<>>
  /\ observed = {}

\* classify_comment(text)
TextClassify ==
  /\ pc = "text"
  /\ report' = [comment_type |-> classify_comment(cur.text)]
  /\ pc' = "classified"
  /\ UNCHANGED <<raw, idx, cur, processed, speller, vader, instances,
                 engineCalls, tpc, tlocal, observed>>

NextText == TextClassify

SpecText == InitText /\ [][NextText]_vars

----------------------------------------------------------------------------
(* The Sentiment Scorer called on its own: analyze_sentiment on one text,  *)
(* analyze_comments_vader on a batch of one comment.                       *)

\* the texts the scorer is called with, the empty text among them
ScorerTexts == { <<>>, <<"o","k">>, <<"n","i","c","e">> }

\* the compound scores of the engine, -1.00 to 1.00
ScorerCompounds == (0 - 100)..100

\* analyzer.polarity_scores(text): a compound or an exception; a text
\* without tokens has no valence, its compound is 0.0
PolarityScores(text) ==
  IF text = <<>> THEN {[raised |-> FALSE, compound |-> 0]}
  ELSE {[raised |-> FALSE, compound |-> c] : c \in ScorerCompounds}
         \cup {[raised |-> TRUE, compound |-> 0]}

\* the comment dicts that carry the text: under text_clean, under text
\* only, and, for the empty text, under neither key
ScorerComments(text) ==
  {[id |-> "1", text_clean |-> text], [id |-> "1", text |-> PyStr(text)]}
    \cup (IF text = <<>> THEN {[id |-> "1"]} ELSE {})

InitScorer ==
  /\ raw = <<>>
  /\ pc = "scorer"
  /\ idx = 1
  /\ cur \in {[NoLocals EXCEPT !.text = t] : t \in ScorerTexts}
  /\ processed = <<>>
  /\ speller = "None"
  /\ vader = 0
  /\ instances = <<>>
  /\ report = NoReport
  /\ engineCalls = <<>>
  /\ tpc = <<>>
  /\ tlocal = <<>>
  /\ observed = {}

\* analyze_sentiment(text): get_vader_analyzer(), polarity_scores(text),
\* the label by the thresholds
ScoreSingle ==
  /\ pc = "scorer"
  /\ \E out \in PolarityScores(cur.text) :
       LET r == analyze_sentiment(cur.text, out)
       IN  report' = [entry           |-> "analyze_sentiment",
                      engine          |-> out,
                      raised          |-> r.raised,
                      sentiment       |-> r.sentiment,
                      sentiment_score |-> r.compound]
  /\ engineCalls' = Append(engineCalls, cur.text)
  /\ instances' = Append(instances, "overridden")
  /\ vader' = Len(instances) + 1
  /\ pc' = "scored"
  /\ UNCHANGED <<raw, idx, cur, processed, speller, tpc, tlocal, observed>>

\* analyze_comments_vader([comment]): get_vader_analyzer(), the loop body
\* for the one comment, return comments
ScoreBatch ==
  /\ pc = "scorer"
  /\ \E comment \in ScorerComments(cur.text) :
       \E out \in PolarityScores(cur.text) :
          LET r == AnalyzeOne(comment, out)
          IN  /\ report' = [entry           |-> "analyze_comments_vader",
                            engine          |-> out,
                            raised          |-> r.outcome = "raise",
                            sentiment       |-> Get(r.comment, "sentiment", "none"),
                            sentiment_score |-> Get(r.comment, "sentiment_score", 0)]
              /\ processed' = <<r.comment>>
              /\ engineCalls' = IF EngineCalled(comment)
                                THEN Append(engineCalls, AnalyzedText(comment))
                                ELSE engineCalls
  /\ instances' = Append(instances, "overridden")
  /\ vader' = Len(instances) + 1
  /\ pc' = "scored"
  /\ UNCHANGED <<raw, idx, cur, speller, tpc, tlocal, observed>>

NextScorer ==
  \/ ScoreSingle
  \/ ScoreBatch

SpecScorer == InitScorer /\ [][NextScorer]_vars

----------------------------------------------------------------------------
(* The Aggregator / Ranker on analyzed batches:                            *)
(* calculate_sentiment_distribution, calculate_filtered_stats and          *)
(* get_extreme_comments on a list as analyze_comments_vader returns it.    *)

\* the largest analyzed batch
MaxAnalyzed == 3

\* Analyzed comments a batch is made of, as the two stages leave them
\* (is_filtered follows comment_type, the label follows the score); their
\* id is their place in the batch
AnalyzedCorpus ==
  { [comment_type |-> "normal", is_filtered |-> FALSE,
     sentiment |-> "positive", sentiment_score |-> 70],
    [comment_type |-> "normal", is_filtered |-> FALSE,
     sentiment |-> "positive", sentiment_score |-> 5],
    [comment_type |-> "normal", is_filtered |-> FALSE,
     sentiment |-> "negative", sentiment_score |-> -30],
    [comment_type |-> "normal", is_filtered |-> FALSE,
     sentiment |-> "negative", sentiment_score |-> -60],
    [comment_type |-> "normal", is_filtered |-> FALSE,
     sentiment |-> "neutral", sentiment_score |-> 4],
    [comment_type |-> "spam", is_filtered |-> TRUE,
     sentiment |-> "positive", sentiment_score |-> 70],
    [comment_type |-> "troll", is_filtered |-> TRUE,
     sentiment |-> "negative", sentiment_score |-> -60] }

\* the largest batch of comments that differ in their label only
MaxCounted == 7

\* larger batches, of non-filtered comments: positive of them Positive,
\* then negative of them Negative, then neutral of them Neutral
CountedBatch(positive, negative, neutral) ==
  [k \in 1..(positive + negative + neutral) |->
     [id |-> ToString(k), comment_type |-> "normal", is_filtered |-> FALSE,
      sentiment |-> IF k <= positive THEN "positive"
                    ELSE IF k <= positive + negative THEN "negative"
                    ELSE "neutral",
      sentiment_score |-> IF k <= positive THEN 70
                          ELSE IF k <= positive + negative THEN -30
                          ELSE 4]]

CountedBatches ==
  {CountedBatch(t[1], t[2], t[3]) :
     t \in {u \in (0..MaxCounted) \X (0..MaxCounted) \X (0..MaxCounted) :
              /\ u[1] + u[2] + u[3] > MaxAnalyzed
              /\ u[1] + u[2] + u[3] <= MaxCounted}}

\* the batch is built comment by comment from the corpus, or is one of the
\* larger batches
InitAggregate ==
  /\ raw = <<>>
  /\ pc = "collect"
  /\ idx = 1
  /\ cur = NoLocals
  /\ processed \in {<<>>} \cup CountedBatches
  /\ speller = "None"
  /\ vader = 0
  /\ instances = <<>>
  /\ report = NoReport
  /\ engineCalls = <<>>
  /\ tpc = <<>>
  /\ tlocal = <<>>
  /\ observed = {}

\* one more comment in the analyzed batch
CollectAnalyzed ==
  /\ pc = "collect"
  /\ Len(processed) < MaxAnalyzed
  /\ \E c \in AnalyzedCorpus :
       processed' = Append(processed,
                           Merge(c, [id |-> ToString(Len(processed) + 1)]))
  /\ UNCHANGED <<raw, pc, idx, cur, speller, vader, instances, report,
                 engineCalls, tpc, tlocal, observed>>

\* calculate_sentiment_distribution(comments),
\* calculate_filtered_stats(comments) and
\* get_extreme_comments(comments, sentiment, n) on the batch
AggregateAnalyzed ==
  /\ pc = "collect"
  /\ \E sentiment \in {"positive", "negative", "neutral"} :
       \E n \in 0..(MaxAnalyzed + 1) :
          report' = [sentiment_distribution |->
                       calculate_sentiment_distribution(processed),
                     filtered_stats |-> calculate_filtered_stats(processed),
                     sentiment |-> sentiment,
                     n |-> n,
                     extreme_comments |->
                       get_extreme_comments(processed, sentiment, n)]
  /\ processed' = CommentsAfterAggregation(processed)
  /\ pc' = "aggregated"
  /\ UNCHANGED <<raw, idx, cur, speller, vader, instances,
                 engineCalls, tpc, tlocal, observed>>

NextAggregate ==
  \/ CollectAnalyzed
  \/ AggregateAnalyzed

SpecAggregate == InitAggregate /\ [][NextAggregate]_vars

----------------------------------------------------------------------------
(* The Normalizer applied to a text, and again to its own output.          *)

\* the pieces the texts are made of: hashtag and mention signs, a word, a
\* timestamp, a URL and the two halves of one
NormalizerFragments ==
  << <<"#">>,
     <<"t","a","g">>,
     <<"@">>,
     <<"1",":","2","3">>,
     <<"h","t","t","p",":","/","/","x">>,
     <<" ">>,
     <<"h","t","t">>,
     <<"p",":","/","/","x">> >>

\* the texts of at most MaxFragments pieces
NormalizerInputs ==
  UNION { { Concat([i \in 1..n |-> NormalizerFragments[choice[i]]]) :
            choice \in [1..n -> 1..Len(NormalizerFragments)] } :
          n \in 0..MaxFragments }

InitNormalizer ==
  /\ raw = <<>>
  /\ pc = "normalize"
  /\ idx = 1
  /\ cur \in {[NoLocals EXCEPT !.text = t] : t \in NormalizerInputs}
  /\ processed = <<>>
  /\ speller = "None"
  /\ vader = 0
  /\ instances = <<>>
  /\ report = NoReport
  /\ engineCalls = <<>>
  /\ tpc = <<>>
  /\ tlocal = <<>>
  /\ observed = {}

\* clean = clean_text(text)
NormalizeOnce ==
  /\ pc = "normalize"
  /\ cur' = [cur EXCEPT !.clean = clean_text(cur.text)]
  /\ pc' = "normalized"
  /\ UNCHANGED <<raw, idx, processed, speller, vader, instances, report,
                 engineCalls, tpc, tlocal, observed>>

\* clean_text(clean): the Normalizer on its own output
NormalizeAgain ==
  /\ pc = "normalized"
  /\ report' = [clean_again |-> clean_text(cur.clean)]
  /\ pc' = "normalized_again"
  /\ UNCHANGED <<raw, idx, cur, processed, speller, vader, instances,
                 engineCalls, tpc, tlocal, observed>>

NextNormalizer ==
  \/ NormalizeOnce
  \/ NormalizeAgain

SpecNormalizer == InitNormalizer /\ [][NextNormalizer]_vars

----------------------------------------------------------------------------
(* fetch_comments and _fetch_replies (app/scraper.py): the pagination loop *)
(* over the pages of the API. comments is the variable processed, the      *)
(* items of the page at hand the variable raw, the other locals the        *)
(* variable cur.                                                           *)

\* the largest max_comments asked for
MaxComments == 3

\* min(100, ...): the largest page the API is asked for
API_MAX_RESULTS == 100

\* min(thread_reply_count, 5): the most replies asked for per thread
MAX_REPLIES_PER_THREAD == 5

Min(a, b) == IF a < b THEN a ELSE b

\* totalReplyCount of the threads the API returns
ReplyCounts == {0, 2, 7}

\* page_size = min(100, max_comments - len(comments))
PageSize(max_comments, comments) ==
  Min(API_MAX_RESULTS, max_comments - Len(comments))

\* youtube.commentThreads().list(maxResults=page_size, ...).execute():
\* the request raises, or returns at most page_size threads, with or
\* without a nextPageToken
ThreadPages(page_size) ==
  {[raised |-> TRUE, items |-> <<>>, nextPageToken |-> FALSE]}
    \cup UNION { { [raised |-> FALSE,
                    items |-> [i \in 1..k |-> [totalReplyCount |-> counts[i]]],
                    nextPageToken |-> token] :
                   counts \in [1..k -> ReplyCounts], token \in BOOLEAN } :
                 k \in 0..page_size }

\* faulty variant: all the replies of the thread are asked for
MaxRepliesOf_Uncapped(thread_reply_count) == thread_reply_count

\* max_replies=min(thread_reply_count, 5)
MaxRepliesOf(thread_reply_count) ==
  Min(thread_reply_count, MAX_REPLIES_PER_THREAD)

\* youtube.comments().list(maxResults=min(max_replies, 100), ...).execute():
\* the request raises, or returns at most maxResults replies
ReplyPages(max_replies) ==
  {[raised |-> TRUE, items |-> 0]}
    \cup {[raised |-> FALSE, items |-> k] :
            k \in 0..Min(max_replies, API_MAX_RESULTS)}

\* the record of a top-level comment
ThreadComment(item) ==
  [is_reply |-> FALSE, reply_count |-> item.totalReplyCount]

\* the record of a reply
ReplyComment == [is_reply |-> TRUE, reply_count |-> 0]

\* _fetch_replies(youtube, parent_id, max_replies), the API answering
\* response: the replies of the response, or none when the request raised
\* (except Exception: logger.warning)
fetch_replies(max_replies, response) ==
  IF response.raised THEN <<>>
  ELSE [i \in 1..response.items |-> ReplyComment]

\* the locals of fetch_comments before the loop; before and reply_failed
\* record the length of comments at the top of the iteration and whether a
\* request for replies has raised
FetchLocals(max_comments, include_replies) ==
  [max_comments |-> max_comments, include_replies |-> include_replies,
   next_page_token |-> FALSE, response_token |-> FALSE,
   reply_count_total |-> 0, before |-> 0, reply_failed |-> FALSE]

InitFetch ==
  /\ raw = <<>>
  /\ pc = "while"
  /\ idx = 1
  /\ cur \in {FetchLocals(m, r) : m \in 1..MaxComments, r \in BOOLEAN}
  /\ processed = <<>>
  /\ speller = "None"
  /\ vader = 0
  /\ instances = <<>>
  /\ report = NoReport
  /\ engineCalls = <<>>
  /\ tpc = <<>>
  /\ tlocal = <<>>
  /\ observed = {}

FetchFrame == <<speller, vader, instances, engineCalls, tpc, tlocal, observed>>

\* while len(comments) < max_comments
FetchWhile ==
  /\ pc = "while"
  /\ pc' = IF Len(processed) < cur.max_comments THEN "request" ELSE "return"
  /\ cur' = [cur EXCEPT !.before = Len(processed)]
  /\ UNCHANGED <<raw, idx, processed, report>>
  /\ UNCHANGED FetchFrame

\* response = youtube.commentThreads().list(...).execute();
\* items = response.get("items", []); if not items: break
FetchRequest ==
  /\ pc = "request"
  /\ \E response \in ThreadPages(PageSize(cur.max_comments, processed)) :
       IF response.raised
       THEN /\ pc' = "raised"
            /\ UNCHANGED <<raw, idx, cur>>
       ELSE /\ raw' = response.items
            /\ idx' = 1
            /\ cur' = [cur EXCEPT !.response_token = response.nextPageToken]
            /\ pc' = IF response.items = <<>> THEN "return" ELSE "items"
  /\ UNCHANGED <<processed, report>>
  /\ UNCHANGED FetchFrame

\* for item in items: if len(comments) >= max_comments: break;
\* comments.append(comment_data); comments.extend(replies)
FetchItem ==
  /\ pc = "items"
  /\ idx <= Len(raw)
  /\ IF Len(processed) >= cur.max_comments
     THEN /\ pc' = "page_end"
          /\ UNCHANGED <<idx, cur, processed>>
     ELSE LET thread_reply_count == raw[idx].totalReplyCount
          IN  /\ pc' = "items"
              /\ idx' = idx + 1
              /\ IF cur.include_replies /\ thread_reply_count > 0
                 THEN \E response \in ReplyPages(MaxRepliesOf(thread_reply_count)) :
                        /\ processed' =
                             Append(processed, ThreadComment(raw[idx]))
                               \o fetch_replies(MaxRepliesOf(thread_reply_count),
                                                response)
                        /\ cur' = [cur EXCEPT
                                     !.reply_count_total = @ + thread_reply_count,
                                     !.reply_failed = @ \/ response.raised]
                 ELSE /\ processed' = Append(processed, ThreadComment(raw[idx]))
                      /\ cur' = [cur EXCEPT
                                   !.reply_count_total = @ + thread_reply_count]
  /\ UNCHANGED <<raw, report>>
  /\ UNCHANGED FetchFrame

\* the for loop has gone through the items of the page
FetchItemsDone ==
  /\ pc = "items"
  /\ idx > Len(raw)
  /\ pc' = "page_end"
  /\ UNCHANGED <<raw, idx, cur, processed, report>>
  /\ UNCHANGED FetchFrame

\* next_page_token = response.get("nextPageToken");
\* if not next_page_token: break
FetchPageEnd ==
  /\ pc = "page_end"
  /\ cur' = [cur EXCEPT !.next_page_token = cur.response_token]
  /\ pc' = IF cur.response_token THEN "while" ELSE "return"
  /\ UNCHANGED <<raw, idx, processed, report>>
  /\ UNCHANGED FetchFrame

\* return {"video_id": ..., "total_fetched": ..., "total_replies": ...,
\*         "comments": comments}
FetchReturn ==
  /\ pc = "return"
  /\ report' = [total_fetched |-> Len(processed),
                total_replies |-> cur.reply_count_total,
                comments |-> processed]
  /\ pc' = "returned"
  /\ UNCHANGED <<raw, idx, cur, processed>>
  /\ UNCHANGED FetchFrame

NextFetch ==
  \/ FetchWhile
  \/ FetchRequest
  \/ FetchItem
  \/ FetchItemsDone
  \/ FetchPageEnd
  \/ FetchReturn

\* the interpreter keeps running the function until it returns or raises
SpecFetch == InitFetch /\ [][NextFetch]_vars /\ WF_vars(NextFetch)

----------------------------------------------------------------------------
(* Claims.                                                                 *)

\* the analysis of the batch is complete
Analyzed == pc \in {"aggregate", "done"}

\* C1: for every comment record returned by preprocess_comments, also after
\* analyze_comments_vader has run on it, is_filtered is true exactly when
\* comment_type is not Normal.
C1_FilteredIffNotNormal ==
  \A k \in 1..Len(processed) :
     processed[k].is_filtered = (processed[k].comment_type # "normal")

\* a finished run with a filtered and a not filtered comment, both scored,
\* the second from a raw record that carried is_filtered = true itself
C1_Witness ==
  /\ pc = "done"
  /\ \E j, k \in 1..Len(processed) :
        /\ processed[j].is_filtered
        /\ processed[j].comment_type = "troll"
        /\ "sentiment" \in DOMAIN processed[j]
        /\ ~processed[k].is_filtered
        /\ "sentiment" \in DOMAIN processed[k]
        /\ \E r \in 1..Len(raw) :
              /\ raw[r].id = processed[k].id
              /\ Get(raw[r], "is_filtered", FALSE)

\* the comments of a batch that are not filtered, and those of one label
NotFiltered(cs) == SelectSeq(cs, LAMBDA c : c.is_filtered = FALSE)
Labels == {"positive", "negative", "neutral"}

\* C2: a comment with is_filtered = true is never counted in the positive,
\* negative, neutral counts or the average of the distribution (removing
\* the filtered comments from the batch changes nothing, and the counts add
\* up to the number of the other comments), and it is in no list returned by
\* get_extreme_comments, for any label and any n.
C2_FilteredNeverCounted ==
  Analyzed =>
    LET d == calculate_sentiment_distribution(processed)
    IN  /\ d = calculate_sentiment_distribution(NotFiltered(processed))
        /\ d.positive + d.negative + d.neutral = Len(NotFiltered(processed))
        /\ \A label \in Labels : \A n \in 0..(Len(processed) + 1) :
              LET top == get_extreme_comments(processed, label, n)
              IN  \A k \in 1..Len(top) : ~top[k].is_filtered
        /\ pc = "done" =>
              /\ report.sentiment_distribution = d
              /\ \A k \in 1..Len(report.top_positive_comments) :
                    ~report.top_positive_comments[k].is_filtered
              /\ \A k \in 1..Len(report.top_negative_comments) :
                    ~report.top_negative_comments[k].is_filtered

\* a finished run where a filtered comment was scored Positive and a
\* comment that is not filtered Negative: the report counts the second only
C2_Witness ==
  /\ pc = "done"
  /\ \E j, k \in 1..Len(processed) :
        /\ processed[j].is_filtered
        /\ processed[j].sentiment = "positive"
        /\ ~processed[k].is_filtered
        /\ processed[k].sentiment = "negative"
  /\ report.sentiment_distribution.positive = 0
  /\ report.sentiment_distribution.negative = 1
  /\ report.top_positive_comments = <<>>

\* the text raises at least one of the five spam signals
AnySpamSignal(text) ==
  \/ SpamKeywordSignal(text)
  \/ SpamCapsSignal(text)
  \/ SpamEmojiSignal(text)
  \/ SpamRepeatSignal(text)
  \/ SpamPromoSignal(text)

\* the text raises at least one of the five troll signals
AnyTrollSignal(text) ==
  LET text_lower == Strip(ToLower(text))
  IN  \/ TrollIndicatorSignal(text_lower)
      \/ TrollFirstSignal(text_lower)
      \/ TrollRatioSignal(text_lower)
      \/ TrollNobodySignal(text_lower)
      \/ TrollShortSignal(text_lower)

\* C3: classify_comment evaluates the spam check before the troll check: a
\* text that raises a spam signal and a troll signal is Spam, Troll is
\* returned only when no spam signal is raised, Normal only when neither a
\* spam nor a troll signal is raised.
C3_SpamBeforeTroll ==
  pc = "classified" =>
    /\ (AnySpamSignal(cur.text) /\ AnyTrollSignal(cur.text))
          => report.comment_type = "spam"
    /\ report.comment_type = "troll" => ~AnySpamSignal(cur.text)
    /\ report.comment_type = "normal"
          => ~AnySpamSignal(cur.text) /\ ~AnyTrollSignal(cur.text)

\* a text that raises a spam and a troll signal has been classified
C3_Witness ==
  /\ pc = "classified"
  /\ AnySpamSignal(cur.text)
  /\ AnyTrollSignal(cur.text)
  /\ report.comment_type = "spam"

\* the validity check as the claim states it
PassesValidity(text) ==
  /\ text # <<>>
  /\ Len(Strip(text)) >= MIN_COMMENT_LENGTH
  /\ \E k \in 1..Len(text) : IsAsciiLetter(text[k])

\* the raw record a processed comment comes from
RawOf(c) == raw[CHOOSE r \in 1..Len(raw) : raw[r].id = c.id]

\* C4: a raw comment is in the output of preprocess_comments only if its raw
\* text passes the validity check and its normalized text passes it too; the
\* two-character comment "ok" is in no output.
C4_ValidityGates ==
  pc = "get_analyzer" =>
    \A k \in 1..Len(processed) :
       LET text == Get(RawOf(processed[k]), "text", PyStr(<<>>))
       IN  /\ text.type = "str"
           /\ PassesValidity(text.value)
           /\ PassesValidity(clean_text(text.value))
           /\ text.value # <<"o","k">>

\* preprocess_comments has returned a batch from which it dropped "ok" (raw
\* gate) or a text that the Normalizer emptied (second gate), keeping another
C4_Witness ==
  /\ pc = "get_analyzer"
  /\ Len(processed) = 1
  /\ \E r \in 1..Len(raw) :
        LET text == Get(raw[r], "text", PyStr(<<>>))
        IN  /\ text.type = "str"
            /\ PassesValidity(text.value)
            /\ ~PassesValidity(clean_text(text.value))

\* C5 (as the specification states it): for every comment returned by
\* preprocess_comments the length of text_clean is at most
\* MAX_COMMENT_LENGTH, also when the corrected text was truncated.
C5_TextCleanWithinMaximum ==
  \A k \in 1..Len(processed) :
     Len(processed[k].text_clean) <= MAX_COMMENT_LENGTH

\* C6 (as the specification states it): when several threads call
\* get_vader_analyzer for the first time at the same time, at most one
\* SentimentIntensityAnalyzer is ever created, and all callers receive that
\* same instance.
C6_ConstructedAtMostOnce ==
  /\ Len(instances) <= 1
  /\ \A t, u \in Threads :
        (tlocal[t] # 0 /\ tlocal[u] # 0) => tlocal[t] = tlocal[u]

\* C7 (as the specification states it): in every interleaving, no thread
\* computes a polarity score with an analyzer whose lexicon lacks the
\* override table.
C7_ScoredWithOverridesOnly ==
  \A obs \in observed : obs[2] = "overridden"

\* C8 (as the specification states it): an error of the engine while one
\* comment is scored does not leave analyze_comments_vader: the comment is
\* Neutral with score 0.0 and the loop goes on.
C8_EngineErrorRecovered ==
  pc # "raised_analyze"

\* C9 (as the specification states it): preprocess_comments followed by
\* analyze_comments_vader completes without raising, whatever the records
\* of the batch contain.
C9_NoRecordAbortsBatch ==
  pc \notin {"raised_preprocess", "raised_analyze"}

\* the outcome of the Corrector for the comment at hand when the external
\* corrector raises at point fail
CorrectorFailure(fail) == autocorrect_text(cur.clean, speller, fail)

\* C10: if the external spell corrector, its lazy construction included,
\* raises on any token, autocorrect_text returns the original text unchanged
\* and raises nothing; preprocess_comments goes on with that comment
\* (truncation next, same position in the batch, nothing lost from the
\* output so far).
C10_CorrectorFailureIsSilent ==
  [][pc = "autocorrect" =>
       /\ \A fail \in FailurePoints(cur.clean, speller) \ {0} :
             /\ CorrectorFailure(fail).text = cur.clean
             /\ ~CorrectorFailure(fail).raised
       /\ pc' = "truncate"
       /\ idx' = idx
       /\ processed' = processed
       /\ cur'.corrected \in {cur.clean, CorrectorFailure(0).text}]_vars

\* a finished run in which the corrector failed on a comment with
\* misspelled words: the comment is in the output with its text as the
\* Normalizer left it, and the next comment of the batch was processed too
C10_Witness ==
  /\ pc = "done"
  /\ Len(processed) = 2
  /\ processed[1].text_clean = <<"t","e","h"," ","v","i","d"," ","i","s"," ","g","u","d">>
  /\ autocorrect_text(processed[1].text_clean, "Speller", 0).text
        # processed[1].text_clean
  /\ "sentiment" \in DOMAIN processed[2]

\* C11 (as the specification states it): for the empty text the Sentiment
\* Scorer returns Neutral and 0.0 and does not invoke the polarity
\* computation of the engine, in analyze_sentiment and in
\* analyze_comments_vader.
C11_EmptyTextSkipsEngine ==
  (pc = "scored" /\ cur.text = <<>>) =>
    /\ ~report.raised
    /\ report.sentiment = "neutral"
    /\ report.sentiment_score = 0
    /\ engineCalls = <<>>

\* C12: with the thresholds N < P of the configuration, a compound c >= P
\* is Positive (c = P included), c <= N is Negative (c = N included), every
\* c strictly between is Neutral; a score has exactly one label, it is the
\* compound of the engine, and analyze_sentiment and analyze_comments_vader
\* label alike.
C12_LabelByThresholds ==
  /\ VADER_COMPOUND_THRESHOLD_NEGATIVE < VADER_COMPOUND_THRESHOLD_POSITIVE
  /\ (pc = "scored" /\ ~report.raised /\ engineCalls # <<>>) =>
       LET c == report.sentiment_score
       IN  /\ c = report.engine.compound
           /\ report.sentiment \in Labels
           /\ report.sentiment = "positive"
                 <=> c >= VADER_COMPOUND_THRESHOLD_POSITIVE
           /\ report.sentiment = "negative"
                 <=> c <= VADER_COMPOUND_THRESHOLD_NEGATIVE
           /\ report.sentiment = "neutral"
                 <=> (VADER_COMPOUND_THRESHOLD_NEGATIVE < c
                        /\ c < VADER_COMPOUND_THRESHOLD_POSITIVE)

\* the batch entry point has labelled a compound that is exactly the
\* positive threshold
C12_Witness ==
  /\ pc = "scored"
  /\ report.entry = "analyze_comments_vader"
  /\ engineCalls # <<>>
  /\ report.sentiment_score = VADER_COMPOUND_THRESHOLD_POSITIVE
  /\ report.sentiment = "positive"

\* the number of comments of the batch that satisfy F
CountWhere(F(_), cs) == Cardinality({k \in 1..Len(cs) : F(cs[k])})

\* C13: when no comment of the batch is non-filtered (the batch is empty,
\* or all its comments are Spam or Troll), calculate_sentiment_distribution
\* returns zero for all counts, all percentages and the average; for the
\* empty batch calculate_filtered_stats returns all-zero fields and
\* get_extreme_comments the empty list.
C13_EmptySetGivesZeros ==
  pc = "aggregated" =>
    /\ (\A k \in 1..Len(processed) : processed[k].is_filtered) =>
          report.sentiment_distribution =
            [positive |-> 0, negative |-> 0, neutral |-> 0,
             positive_percentage |-> 0, negative_percentage |-> 0,
             neutral_percentage |-> 0, average_sentiment |-> 0]
    /\ processed = <<>> =>
          /\ report.filtered_stats =
               [total_filtered |-> 0, spam_count |-> 0, troll_count |-> 0,
                spam_percentage |-> 0, troll_percentage |-> 0]
          /\ report.extreme_comments = <<>>

\* a batch of a Spam and a Troll comment (both scored) has been aggregated
C13_Witness ==
  /\ pc = "aggregated"
  /\ Len(processed) = 2
  /\ processed[1].comment_type = "spam"
  /\ processed[2].comment_type = "troll"
  /\ report.sentiment_distribution.positive = 0
  /\ report.sentiment_distribution.average_sentiment = 0
  /\ report.filtered_stats.total_filtered = 2

\* C14: for a batch with at least one non-filtered comment, positive +
\* negative + neutral equals the number of non-filtered comments, and the
\* three percentages (tenths of a percent) add up to 100.0 give or take 0.1.
C14_CountsAndPercentagesAddUp ==
  (pc = "aggregated" /\ \E k \in 1..Len(processed) : ~processed[k].is_filtered) =>
    LET d == report.sentiment_distribution
        IsNotFiltered(c) == ~c.is_filtered
        sum == d.positive_percentage + d.negative_percentage
                 + d.neutral_percentage
    IN  /\ d.positive + d.negative + d.neutral
             = CountWhere(IsNotFiltered, processed)
        /\ 999 <= sum
        /\ sum <= 1001

\* a batch of one Positive, one Negative and four Neutral comments has been
\* aggregated: 16.7 + 16.7 + 66.7 = 100.1
C14_Witness ==
  /\ pc = "aggregated"
  /\ report.sentiment_distribution.positive = 1
  /\ report.sentiment_distribution.negative = 1
  /\ report.sentiment_distribution.neutral = 4
  /\ report.sentiment_distribution.positive_percentage
       + report.sentiment_distribution.negative_percentage
       + report.sentiment_distribution.neutral_percentage = 1001

\* the place of a comment in the batch (the ids of a batch are distinct)
PlaceOf(c) == CHOOSE k \in 1..Len(processed) : processed[k].id = c.id

\* x is ranked before y for the label: by score (higher first for Positive,
\* lower first for Negative), and by the place in the batch at equal scores
RankedBefore(label, x, y) ==
  \/ label = "positive" /\ x.sentiment_score > y.sentiment_score
  \/ label = "negative" /\ x.sentiment_score < y.sentiment_score
  \/ x.sentiment_score = y.sentiment_score /\ PlaceOf(x) < PlaceOf(y)

\* C15: get_extreme_comments(comments, label, n) returns at most n comments,
\* all of them comments of the batch that are not filtered and have the
\* label; for Positive they are the n highest-scored, highest first, for
\* Negative the n lowest-scored, lowest first; comments with equal scores
\* keep the order they have in the batch, in both directions.
C15_ExtremeCommentsRanked ==
  (pc = "aggregated" /\ report.sentiment \in {"positive", "negative"}) =>
    LET top == report.extreme_comments
        label == report.sentiment
        Candidate(c) == ~c.is_filtered /\ c.sentiment = label
        InTop(c) == \E k \in 1..Len(top) : top[k] = c
    IN  /\ Len(top) <= report.n
        /\ Len(top) = IF CountWhere(Candidate, processed) < report.n
                      THEN CountWhere(Candidate, processed) ELSE report.n
        /\ \A k \in 1..Len(top) :
              /\ Candidate(top[k])
              /\ \E j \in 1..Len(processed) : processed[j] = top[k]
        /\ \A i, j \in 1..Len(top) :
              i < j => RankedBefore(label, top[i], top[j])
        /\ \A j \in 1..Len(processed) : \A k \in 1..Len(top) :
              (Candidate(processed[j]) /\ ~InTop(processed[j]))
                 => RankedBefore(label, top[k], processed[j])

\* the two highest of three Positive comments were asked for; the first of
\* the batch has the lowest score and is left out, the two others have
\* equal scores and come in the order of the batch
C15_Witness ==
  /\ pc = "aggregated"
  /\ report.sentiment = "positive"
  /\ report.n = 2
  /\ Len(processed) = 3
  /\ \A k \in 1..3 : processed[k].sentiment = "positive" /\ ~processed[k].is_filtered
  /\ processed[1].sentiment_score < processed[2].sentiment_score
  /\ processed[2].sentiment_score = processed[3].sentiment_score
  /\ report.extreme_comments = <<processed[2], processed[3]>>

\* C20: calculate_filtered_stats counts every filtered comment: spam_count
\* and troll_count are the numbers of Spam and Troll comments,
\* total_filtered is their sum and the number of comments with is_filtered
\* true; the two percentages are the shares of the whole batch rounded to
\* one decimal, and together never exceed 100.1.
C20_FilteredStatsOfWholeBatch ==
  pc = "aggregated" =>
    LET s == report.filtered_stats
        total == Len(processed)
        IsSpam(c) == c.comment_type = "spam"
        IsTroll(c) == c.comment_type = "troll"
        IsFiltered(c) == c.is_filtered
    IN  /\ s.spam_count = CountWhere(IsSpam, processed)
        /\ s.troll_count = CountWhere(IsTroll, processed)
        /\ s.total_filtered = s.spam_count + s.troll_count
        /\ s.total_filtered = CountWhere(IsFiltered, processed)
        /\ 2 * Abs(s.spam_percentage * total - 1000 * s.spam_count) <= total
        /\ 2 * Abs(s.troll_percentage * total - 1000 * s.troll_count) <= total
        /\ s.spam_percentage + s.troll_percentage <= 1001

\* a batch of a Spam, a Troll and a Normal comment has been aggregated:
\* each of the two filtered kinds is 33.3 % of the batch
C20_Witness ==
  /\ pc = "aggregated"
  /\ Len(processed) = 3
  /\ report.filtered_stats.spam_count = 1
  /\ report.filtered_stats.troll_count = 1
  /\ report.filtered_stats.spam_percentage = 333
  /\ report.filtered_stats.troll_percentage = 333

\* C16 (as the specification states it): a comment is sentiment-scored
\* only if it was classified Normal; the text of a comment classified Spam
\* or Troll is never handed to the sentiment engine.
C16_OnlyNormalScored ==
  LET IsNormal(c) == c.comment_type = "normal"
  IN  /\ \A k \in 1..Len(processed) :
            "sentiment_score" \in DOMAIN processed[k] => IsNormal(processed[k])
      /\ Len(engineCalls) <= CountWhere(IsNormal, processed)

\* the stage that follows each stage of the loop body of preprocess_comments
\* for the same comment, when the comment passes the stage
NextStage ==
  [validate_raw |-> "clean", clean |-> "validate_clean",
   validate_clean |-> "autocorrect", autocorrect |-> "truncate",
   truncate |-> "classify"]

\* the text_clean that the stages give for a raw text, in their order, the
\* Corrector having corrected the text or failed on it
StagedTexts(text) ==
  {Truncate(clean_text(text)),
   Truncate(autocorrect_text(clean_text(text), "Speller", 0).text)}

\* a step of a stage before the Classifier: the comment goes to the next
\* stage, or it fails a gate and the loop is at the next comment, or the
\* loop ends
StageStep ==
  pc \in DOMAIN NextStage =>
    \/ /\ pc' = NextStage[pc]
       /\ idx' = idx
       /\ processed' = processed
       /\ cur'.text = (IF pc = "validate_raw" THEN raw[idx].text.value
                       ELSE cur.text)
    \/ /\ pc \in {"validate_raw", "validate_clean"}
       /\ pc' = "validate_raw"
       /\ idx' = idx + 1
       /\ processed' = processed
    \/ /\ pc = "validate_raw"
       /\ pc' \in {"get_analyzer", "raised_preprocess"}
       /\ processed' = processed

\* the step of the Classifier: it is given the corrected and truncated
\* text, which is stored as text_clean
ClassifierStep ==
  pc = "classify" =>
    /\ pc' = "validate_raw"
    /\ idx' = idx + 1
    /\ Len(processed') = Len(processed) + 1
    /\ processed'[Len(processed')].text_original = cur.text
    /\ processed'[Len(processed')].text_clean = cur.corrected
    /\ processed'[Len(processed')].comment_type = classify_comment(cur.corrected)

\* what the stages in their order give for every comment of the output
StagedOutput ==
  pc = "get_analyzer" =>
    \A k \in 1..Len(processed) :
       /\ PassesValidity(processed[k].text_original)
       /\ PassesValidity(clean_text(processed[k].text_original))
       /\ processed[k].text_clean \in StagedTexts(processed[k].text_original)
       /\ processed[k].comment_type = classify_comment(processed[k].text_clean)

\* C17: for each raw comment the stages run in the fixed order validity
\* gate on the raw text, Normalizer, validity gate on the normalized text,
\* Corrector, length cap, Classifier, each on the output of the one before;
\* the Classifier is given the stored text_clean, and after a failed gate
\* no later stage runs for the comment (the loop is at the next comment and
\* nothing was added to the output).
C17_StagesInOrder ==
  []StagedOutput /\ [][StageStep]_vars /\ [][ClassifierStep]_vars

\* preprocess_comments has returned a batch of which one comment failed a
\* gate and another has a raw text that the Classifier would call Spam,
\* while its normalized text is Normal
C17_Witness ==
  /\ pc = "get_analyzer"
  /\ Len(processed) = 1
  /\ Len(raw) = 2
  /\ classify_comment(processed[1].text_original) = "spam"
  /\ processed[1].comment_type = "normal"

\* C18 (as the specification states it): the Normalizer is idempotent,
\* clean_text(clean_text(x)) = clean_text(x) for every text x, texts with
\* adjacent hashtags, mentions, URLs and timestamps included.
C18_NormalizerIdempotent ==
  pc = "normalized_again" => report.clean_again = cur.clean

\* a step of the stages after preprocess_comments: the batch keeps its
\* length and order, and every comment its comment_type, is_filtered and
\* text_clean; a step of the aggregation changes no field of any comment
LaterStageStep ==
  /\ pc \in {"get_analyzer", "analyze", "aggregate"} =>
        /\ Len(processed') = Len(processed)
        /\ \A k \in 1..Len(processed) :
              /\ processed'[k].id = processed[k].id
              /\ processed'[k].comment_type = processed[k].comment_type
              /\ processed'[k].is_filtered = processed[k].is_filtered
              /\ processed'[k].text_clean = processed[k].text_clean
  /\ pc = "aggregate" => processed' = processed

\* C19: aggregation never rewrites comments: the distribution, the
\* filtered statistics and the extreme-comment lists leave every field of
\* every comment and the order and length of the batch unchanged, and
\* comment_type, once set by preprocess_comments, is changed by no later
\* stage.
C19_AggregationRewritesNothing == [][LaterStageStep]_vars

\* the aggregation has run on a batch of a filtered comment followed by a
\* comment with a higher score: the batch is still in that order
C19_Witness ==
  /\ pc = "done"
  /\ Len(processed) = 2
  /\ processed[1].is_filtered
  /\ ~processed[2].is_filtered
  /\ processed[1].sentiment_score < processed[2].sentiment_score
  /\ report.sentiment_distribution.positive = 1

\* C21 (as the specification states it): a text that raises no spam signal
\* and contains the phrase "L + ratio" anywhere, at the start, in the middle
\* or at the end, in any letter case, is classified Troll.
C21_RatioPhraseAnywhereIsTroll ==
  (/\ pc = "classified"
   /\ ~SpamEmojiRaises(cur.text)
   /\ ~AnySpamSignal(cur.text)
   /\ Contains(ToLower(cur.text), <<"l"," ","+"," ","r","a","t","i","o">>))
     => report.comment_type = "troll"

\* C22 (as the specification states it): the Classifier is total: for every
\* text, the empty string and texts of whitespace only included,
\* classify_comment returns a label and raises nothing.
C22_ClassifierTotal ==
  pc = "classified" => report.comment_type \in {"spam", "troll", "normal"}

\* what holds of comments at every point of fetch_comments: at most
\* max_comments top-level comments; replies only with include_replies, each
\* within MAX_REPLIES_PER_THREAD places after a top-level comment; at the
\* end of an iteration that did not exit, comments is longer than at its
\* start; the result is the list as collected
FetchSafety ==
  pc \in {"while", "request", "items", "page_end", "return", "returned", "raised"} =>
    LET IsTopLevel(c) == ~c.is_reply
    IN  /\ CountWhere(IsTopLevel, processed) <= cur.max_comments
        /\ ~cur.include_replies =>
              /\ \A k \in 1..Len(processed) : ~processed[k].is_reply
              /\ Len(processed) <= cur.max_comments
        /\ \A k \in 1..Len(processed) :
              processed[k].is_reply =>
                 \E j \in 1..(k - 1) :
                    /\ k - j <= MAX_REPLIES_PER_THREAD
                    /\ ~processed[j].is_reply
                    /\ k - j <= processed[j].reply_count
        /\ pc = "page_end" => Len(processed) > cur.before
        /\ pc = "returned" =>
              /\ report.comments = processed
              /\ report.total_fetched = Len(processed)

\* a step of the loop over the items of a page: it stays in the loop or
\* ends it, whatever the request for replies did; when that request raises
\* the thread contributes its top-level comment and no reply
FetchItemStep ==
  pc = "items" =>
    /\ pc' \in {"items", "page_end"}
    /\ (cur'.reply_failed /\ ~cur.reply_failed) =>
          /\ Len(processed') = Len(processed) + 1
          /\ ~processed'[Len(processed')].is_reply

\* fetch_comments has returned or raised
FetchDone == pc \in {"returned", "raised"}

\* C23: the pagination loop of fetch_comments always terminates, whatever
\* pages the API returns (also when every page has a next-page token):
\* every iteration that does not exit adds at least one comment; the result
\* has at most max_comments top-level comments; with include_replies it is
\* longer than max_comments only by replies, at most 5 per thread; and a
\* failed request for the replies of a thread gives no replies for that
\* thread and does not abort the fetch.
C23_PaginationTerminates ==
  []FetchSafety /\ [][FetchItemStep]_vars /\ <>FetchDone

\* fetch_comments has returned after a page with a next-page token, with
\* max_comments top-level comments and replies on top, one request for
\* replies having raised
C23_Witness ==
  LET IsTopLevel(c) == ~c.is_reply
  IN  /\ pc = "returned"
      /\ cur.next_page_token
      /\ cur.reply_failed
      /\ CountWhere(IsTopLevel, processed) = cur.max_comments
      /\ Len(processed) > cur.max_comments

============================================================================
